---------------------------- MODULE Spec2Model ----------------------------
(***************************************************************************)
(* A model of contrib/dep11/dep11-validate.py: the DEP-11 catalog          *)
(* validator (class DEP11Validator, its schemas and its issue list).       *)
(*                                                                         *)
(* A catalog file is its raw lines, the header document and the component  *)
(* documents the YAML stream yields one at a time.  Strings are sequences  *)
(* of tokens; the substrings the code tests for ("!!python/", " ",         *)
(* ".UTF-8", a quote, a digit, a dot) are tokens of their own.             *)
(***************************************************************************)
EXTENDS Integers, Sequences, FiniteSets, TLC

VARIABLES
    lines,        \* the file: f.readlines()
    header,       \* the file: what next(docs) yields first (or why it fails)
    docs,         \* the file: what the generator yields after the header
    issue_list,   \* DEP11Validator.issue_list, the class attribute
    pc,           \* where the caller / the running validate() stands
    self,         \* the DEP11Validator instance validate() runs on
    ret,          \* validate()'s local ret
    ids_found,    \* validate()'s local ids_found (its keys)
    pos,          \* component documents the for loop has taken so far
    trace,        \* what the current run did, step by step
    results       \* one record per finished validate() call

vars == <<lines, header, docs, issue_list, pc, self, ret, ids_found, pos,
          trace, results>>

\* ------------------------------------------------------------------------
\* Bounds of the model
\* ------------------------------------------------------------------------
MaxLines == 2
MaxDocs == 2
MaxRuns == 2
MaxVerLen == 2
MaxAgainDocs == 1

\* ------------------------------------------------------------------------
\* Python values
\* ------------------------------------------------------------------------
\* A scalar: ty is "absent" (the key is not in the mapping, .get gives
\* None), "str", "num" or "list"; s holds a string's tokens (a number's
\* digits, a list's elements).
Absent == [ty |-> "absent", s |-> <<>>]
Str(toks) == [ty |-> "str", s |-> toks]
Num(toks) == [ty |-> "num", s |-> toks]
PyList(toks) == [ty |-> "list", s |-> toks]

\* Python truthiness (the "if not x" tests).
Truthy(v) ==
    CASE v.ty = "absent" -> FALSE
      [] v.ty = "num" -> v.s # <<"0">>
      [] OTHER -> v.s # <<>>

IsStr(v) == v.ty = "str"
Hashable(v) == v.ty # "list"

Contains(s, tok) == \E i \in 1..Len(s) : s[i] = tok

EndsWith(s, suffix) ==
    /\ Len(s) >= Len(suffix)
    /\ SubSeq(s, Len(s) - Len(suffix) + 1, Len(s)) = suffix

StartsWith(s, prefix) ==
    /\ Len(s) >= Len(prefix)
    /\ SubSeq(s, 1, Len(prefix)) = prefix

\* voluptuous Length(min=1) on a string or a list.
LengthMin1(v) == Len(v.s) >= 1

\* ------------------------------------------------------------------------
\* Issues
\* ------------------------------------------------------------------------
\* One formatted message: its kind, the document ID and key it names, the
\* text it quotes and the number it prints.
Issue(kind, id, key, arg, n) ==
    [kind |-> kind, id |-> id, key |-> key, arg |-> arg, n |-> n]

\* ------------------------------------------------------------------------
\* schema_header
\* ------------------------------------------------------------------------
DEP11 == <<"DEP-11">>
Digits == {"1"}

IsDigit(c) == c \in Digits

\* re.match(r'(\d+\.?)+$', s) from position i: one group (\d+\.?) ending
\* before position j, then either the end of the string ($ also matches
\* before a final newline) or another group.
RECURSIVE MatchGroups(_, _)
MatchGroups(s, i) ==
    \E j \in (i + 1)..(Len(s) + 1) :
        /\ \A k \in i..(j - 1) : IsDigit(s[k])
        /\ \/ j = Len(s) + 1
           \/ j = Len(s) /\ s[j] = "\n"
           \/ j <= Len(s) /\ MatchGroups(s, j)
           \/ /\ j <= Len(s)
              /\ s[j] = "."
              /\ \/ j + 1 = Len(s) + 1
                 \/ j + 1 = Len(s) /\ s[j + 1] = "\n"
                 \/ j + 1 <= Len(s) /\ MatchGroups(s, j + 1)

MatchVersion(s) == MatchGroups(s, 1)

\* The mapping header: its three known keys and whether it has another key.
Header(file, origin, version, extra) ==
    [kind |-> "map", File |-> file, Origin |-> origin, Version |-> version,
     extra |-> extra]

\* next(docs) can also raise (a parse error, or StopIteration on an empty
\* stream) or yield a document that is no mapping.
HeaderParseError == [kind |-> "parse-error"]
HeaderNoDocument == [kind |-> "empty-stream"]
HeaderNull == [kind |-> "null"]
HeaderScalar == [kind |-> "scalar"]

FileOK(h) == IsStr(h.File) /\ h.File.s = DEP11
OriginOK(h) == IsStr(h.Origin) /\ LengthMin1(h.Origin)
VersionOK(h) == IsStr(h.Version) /\ MatchVersion(h.Version.s)

\* schema_header with the version pattern left open at its end (the "$" of
\* the pattern dropped).
MutHeaderVersionPrefix(h) ==
    /\ h.kind = "map"
    /\ FileOK(h)
    /\ OriginOK(h)
    /\ IsStr(h.Version) /\ Len(h.Version.s) >= 1 /\ IsDigit(h.Version.s[1])
    /\ ~h.extra

\* schema_header(header) does not raise: a mapping with the three required
\* keys valid and no other key (the schema does not allow extra keys).
schema_header(h) ==
    /\ h.kind = "map"
    /\ FileOK(h)
    /\ OriginOK(h)
    /\ VersionOK(h)
    /\ ~h.extra

\* ------------------------------------------------------------------------
\* Component documents
\* ------------------------------------------------------------------------
\* A localized value: a scalar, with what ET.fromstring makes of
\* "<root>%s</root>" around it (xml.ok is FALSE when it raises).
Parsed(elems) == [ok |-> TRUE, elems |-> elems]
Unparsable == [ok |-> FALSE, elems |-> <<>>]
LVal(ty, toks, xml) == [ty |-> ty, s |-> toks, xml |-> xml]
Text(toks) == LVal("str", toks, Parsed(<<>>))

\* An element of the parsed fragment: its tag, its attributes and its
\* child elements.
Elem(tag, attrib, kids) == [tag |-> tag, attrib |-> attrib, kids |-> kids]
XmlLang == "{http://www.w3.org/XML/1998/namespace}lang"
Attr(name, value) == [name |-> name, value |-> value]

\* The markup tokens of a description: a start tag (with its attributes),
\* an end tag, or anything else, which is character data ("&" alone is an
\* undefined entity).
MarkupTags == {"p", "ul", "ol", "li", "b"}

AttrTexts ==
    {[attrib |-> <<>>, text |-> ""],
     [attrib |-> <<Attr(XmlLang, "de")>>, text |-> " xml:lang='de'"],
     [attrib |-> <<Attr("class", "x")>>, text |-> " class='x'"]}

StartTags ==
    {[tok |-> "<" \o t \o a.text \o ">", tag |-> t, attrib |-> a.attrib] :
        t \in MarkupTags, a \in AttrTexts}

EndTags == {[tok |-> "</" \o t \o ">", tag |-> t] : t \in MarkupTags}

IsStartTag(tok) == \E r \in StartTags : r.tok = tok
IsEndTag(tok) == \E r \in EndTags : r.tok = tok
StartTag(tok) == CHOOSE r \in StartTags : r.tok = tok
EndTag(tok) == CHOOSE r \in EndTags : r.tok = tok

\* The innermost open element is closed: it becomes the last child of the
\* element that holds it.
CloseElement(stack) ==
    LET n == Len(stack)
        parent == stack[n - 1]
    IN  Append(SubSeq(stack, 1, n - 2),
               Elem(parent.tag, parent.attrib, Append(parent.kids, stack[n])))

\* The parser at token i, with the elements open so far (the root first).
RECURSIVE ParseMarkup(_, _, _)
ParseMarkup(toks, i, stack) ==
    IF i > Len(toks)
    THEN IF Len(stack) = 1 THEN Parsed(stack[1].kids) ELSE Unparsable
    ELSE IF IsStartTag(toks[i])
    THEN ParseMarkup(toks, i + 1,
                     Append(stack, Elem(StartTag(toks[i]).tag, StartTag(toks[i]).attrib, <<>>)))
    ELSE IF IsEndTag(toks[i])
    THEN IF Len(stack) >= 2 /\ stack[Len(stack)].tag = EndTag(toks[i]).tag
         THEN ParseMarkup(toks, i + 1, CloseElement(stack))
         ELSE Unparsable
    ELSE IF toks[i] = "&"
    THEN Unparsable
    ELSE ParseMarkup(toks, i + 1, stack)

\* ET.fromstring("<root>%s</root>" % (desc)): the children of the root, or
\* the failure to parse.
Fromstring(toks) == ParseMarkup(toks, 1, <<Elem("root", <<>>, <<>>)>>)

\* A description value as the file holds it: a string, and what the parser
\* makes of it.
Markup(toks) == LVal("str", toks, Fromstring(toks))

\* A localized map (Name, Summary, ...): its items in document order.
NoMap == [ty |-> "absent", items |-> <<>>]
LMap(items) == [ty |-> "dict", items |-> items]
Item(lang, value) == [lang |-> lang, value |-> value]

\* Packages and the like: a list of scalars.
NoList == [ty |-> "absent", items |-> <<>>]
ListOf(items) == [ty |-> "list", items |-> items]

\* Icon: a mapping with the four known keys.
NoIcon ==
    [ty |-> "absent", stock |-> Absent, cached |-> Absent, local |-> Absent,
     remote |-> Absent]
Icon(stock, cached, local, remote) ==
    [ty |-> "dict", stock |-> stock, cached |-> cached, local |-> local,
     remote |-> remote]

\* An image descriptor and a screenshot.
Image(width, height, url) ==
    [ty |-> "dict", width |-> width, height |-> height, url |-> url]
NoImage == [ty |-> "absent", width |-> 0, height |-> 0, url |-> Absent]
Shot(image, caption) == [image |-> image, caption |-> caption]

\* A component document that is a mapping.
Component(id, type, name, pkgs, icon, summ, desc, dev, shots) ==
    [kind |-> "map", ID |-> id, Type |-> type, Name |-> name,
     Packages |-> pkgs, Icon |-> icon, Summary |-> summ,
     Description |-> desc, DeveloperName |-> dev, Screenshots |-> shots]

\* What else the generator can do at a document: raise a parse error, or
\* yield None (an empty document) or a scalar or list.
DocParseError == [kind |-> "parse-error"]
DocNull == [kind |-> "null"]
DocScalar == [kind |-> "scalar"]

\* "not doc" for a mapping: it has no key at all.
EmptyMapping(doc) ==
    /\ doc.ID.ty = "absent"
    /\ doc.Type.ty = "absent"
    /\ doc.Name.ty = "absent"
    /\ doc.Packages.ty = "absent"
    /\ doc.Icon.ty = "absent"
    /\ doc.Summary.ty = "absent"
    /\ doc.Description.ty = "absent"
    /\ doc.DeveloperName.ty = "absent"
    /\ doc.Screenshots.ty = "absent"

\* ------------------------------------------------------------------------
\* schema_component and the schemas it nests
\* ------------------------------------------------------------------------
ComponentTypes ==
    {<<"generic">>, <<"desktop-app">>, <<"web-app">>, <<"addon">>,
     <<"codec">>, <<"inputmethod">>, <<"font">>}

\* voluptuous Url(): urlparse finds a scheme and a network location.
UrlOK(s) == Len(s) >= 3 /\ s[2] = "://" /\ s[1] # "/" /\ s[3] # "/"

\* schema_translated: key 'C' holds a non-empty string; extra = True lets
\* every other key through with any value.
schema_translated(m) ==
    \E i \in 1..Len(m.items) :
        /\ m.items[i].lang = <<"C">>
        /\ IsStr(m.items[i].value)
        /\ LengthMin1(m.items[i].value)

\* {str: str}: every value of the mapping is a string.
StrToStr(m) == \A i \in 1..Len(m.items) : IsStr(m.items[i].value)

\* All(dict, Length(min=1), schema_translated): Name, DeveloperName, caption.
TranslatedOK(m) ==
    /\ m.ty = "dict"
    /\ Len(m.items) >= 1
    /\ schema_translated(m)

\* All(dict, {str: str}, Length(min=1), schema_translated): Summary,
\* Description.
TranslatedStrOK(m) ==
    /\ m.ty = "dict"
    /\ StrToStr(m)
    /\ Len(m.items) >= 1
    /\ schema_translated(m)

\* All(list, [str], Length(min=1)).
StrListOK(l) ==
    /\ l.ty = "list"
    /\ \A i \in 1..Len(l.items) : IsStr(l.items[i])
    /\ Len(l.items) >= 1

\* re.match(r'^[\'"]?(?:/[^/]+)*[\'"]?$', s): an optional quote, segments
\* of a slash and at least one other character, an optional quote.
Quotes == {"\"", "'"}

Segments(m) ==
    \A i \in 1..Len(m) :
        /\ i = 1 => m[1] = "/"
        /\ m[i] = "/" => i < Len(m) /\ m[i + 1] # "/"

MatchLocal(s) ==
    \E a \in 0..1, b \in 0..1 :
        /\ a + b <= Len(s)
        /\ a = 1 => s[1] \in Quotes
        /\ b = 1 => s[Len(s)] \in Quotes
        /\ Segments(SubSeq(s, a + 1, Len(s) - b))

\* schema_icon, under All(dict, Length(min=1), ...).
IconOK(icon) ==
    /\ icon.ty = "dict"
    /\ \E v \in {icon.stock, icon.cached, icon.local, icon.remote} :
           v.ty # "absent"
    /\ icon.stock.ty # "absent" =>
           IsStr(icon.stock) /\ LengthMin1(icon.stock)
    /\ icon.cached.ty # "absent" =>
           IsStr(icon.cached) /\ Contains(icon.cached.s, ".")
    /\ icon.local.ty # "absent" =>
           IsStr(icon.local) /\ MatchLocal(icon.local.s)
    /\ icon.remote.ty # "absent" =>
           IsStr(icon.remote) /\ UrlOK(icon.remote.s)

\* schema_image, under All(dict, Length(min=1), ...).
ImageOK(img) ==
    /\ img.ty = "dict"
    /\ img.width >= 10
    /\ img.height >= 10
    /\ IsStr(img.url) /\ UrlOK(img.url.s)

\* schema_screenshots, under All(list, Length(min=1), [...]).
ScreenshotsOK(l) ==
    /\ l.ty = "list"
    /\ Len(l.items) >= 1
    /\ \A i \in 1..Len(l.items) :
           /\ ImageOK(l.items[i].image)
           /\ l.items[i].caption.ty # "absent" =>
                  TranslatedOK(l.items[i].caption)

RequiredKeys == {"Type", "ID", "Name", "Packages"}

ComponentKeys ==
    {"Type", "ID", "Name", "Packages", "Summary", "Description", "Icon",
     "DeveloperName", "Screenshots"}

KeyPresent(doc, key) == doc[key].ty # "absent"

\* The value under a key passes the key's validator.
KeyValueOK(doc, key) ==
    CASE key = "Type" -> IsStr(doc.Type) /\ doc.Type.s \in ComponentTypes
      [] key = "ID" -> IsStr(doc.ID) /\ LengthMin1(doc.ID)
      [] key = "Name" -> TranslatedOK(doc.Name)
      [] key = "Packages" -> StrListOK(doc.Packages)
      [] key = "Summary" -> TranslatedStrOK(doc.Summary)
      [] key = "Description" -> TranslatedStrOK(doc.Description)
      [] key = "Icon" -> IconOK(doc.Icon)
      [] key = "DeveloperName" -> TranslatedOK(doc.DeveloperName)
      [] key = "Screenshots" -> ScreenshotsOK(doc.Screenshots)

\* The errors validate_mapping collects: first one per present key whose
\* value is invalid (in the document's key order), then one per required
\* key that is not provided.
InvalidKeys(doc) ==
    {key \in ComponentKeys : KeyPresent(doc, key) /\ ~KeyValueOK(doc, key)}

MissingKeys(doc) == {key \in RequiredKeys : ~KeyPresent(doc, key)}

\* schema_component(doc) does not raise.
schema_component(doc) == InvalidKeys(doc) = {} /\ MissingKeys(doc) = {}

\* str(e) of the MultipleInvalid raised is its first error only.  The key
\* order of the document and the iteration order of the set of missing
\* required keys are not fixed, so any invalid key may come first, and any
\* missing key when no value is invalid.
FirstErrors(doc) ==
    IF InvalidKeys(doc) # {}
    THEN {[key |-> k, msg |-> "invalid value"] : k \in InvalidKeys(doc)}
    ELSE {[key |-> k, msg |-> "required key not provided"] :
             k \in MissingKeys(doc)}

\* ------------------------------------------------------------------------
\* The checks of DEP11Validator
\* ------------------------------------------------------------------------
\* What a check leaves behind: the issues it appended, its boolean result
\* and the exception that ended it ("none" when it returned).
Result(issues, ok, raised) ==
    [issues |-> issues, ok |-> ok, raised |-> raised]

\* Two checks in sequence: the second does not run when the first raised.
Then(r1, r2) ==
    IF r1.raised # "none"
    THEN r1
    ELSE Result(r1.issues \o r2.issues, r1.ok /\ r2.ok, r2.raised)

Passed == Result(<<>>, TRUE, "none")

When(cond, issue) == IF cond THEN <<issue>> ELSE <<>>

\* One turn of the loop of _test_localized_dict with "ret = False" under
\* the cruft-locale tests too.
MutLocalizedItemCruftFails(id, id_string, item) ==
    LET lang == item.lang
        cruft == lang \in {<<"x-test">>, <<"xx">>}
    IN  IF ~IsStr(item.value)
        THEN Result(<<>>, TRUE, "AttributeError")
        ELSE Result(
                 When(cruft, Issue("cruft-locale", id, id_string, lang, 0))
                 \o When(EndsWith(lang, <<".UTF-8">>),
                         Issue("locale-encoding", id, id_string, lang, 0))
                 \o When(\E q \in Quotes : StartsWith(item.value.s, <<q>>),
                         Issue("quoted-string", id, id_string, lang, 0))
                 \o When(Contains(lang, " "),
                         Issue("locale-space", id, id_string, lang, 0)),
                 ~Contains(lang, " ") /\ ~cruft,
                 "none")

\* One turn of the loop of _test_localized_dict.
LocalizedItem(id, id_string, item) ==
    LET lang == item.lang
        value == item.value
        cruft ==
            When(lang = <<"x-test">>, Issue("cruft-locale", id, id_string, lang, 0))
            \o When(lang = <<"xx">>, Issue("cruft-locale", id, id_string, lang, 0))
            \o When(EndsWith(lang, <<".UTF-8">>),
                    Issue("locale-encoding", id, id_string, lang, 0))
    IN  IF ~IsStr(value)
        THEN Result(cruft, TRUE, "AttributeError")
        ELSE Result(
                 cruft
                 \o When(\E q \in Quotes : StartsWith(value.s, <<q>>),
                         Issue("quoted-string", id, id_string, lang, 0))
                 \o When(Contains(lang, " "),
                         Issue("locale-space", id, id_string, lang, 0)),
                 ~Contains(lang, " "),
                 "none")

RECURSIVE LocalizedFrom(_, _, _, _)
LocalizedFrom(id, id_string, items, i) ==
    IF i > Len(items)
    THEN Passed
    ELSE Then(LocalizedItem(id, id_string, items[i]),
              LocalizedFrom(id, id_string, items, i + 1))

_test_localized_dict(doc, ldict, id_string) ==
    LocalizedFrom(doc.ID.s, id_string, ldict.items, 1)

\* "if not ldict: return True": the key is absent or its mapping is empty.
_test_localized(doc, key) ==
    IF doc[key].ty = "absent" \/ doc[key].items = <<>>
    THEN Passed
    ELSE _test_localized_dict(doc, doc[key], key)

Marker == "!!python/"

RECURSIVE CustomObjectsFrom(_, _)
CustomObjectsFrom(ls, i) ==
    IF i > Len(ls)
    THEN Passed
    ELSE Then(Result(When(Contains(ls[i], Marker),
                          Issue("python-object", <<>>, "", <<>>, i - 1)),
                     ~Contains(ls[i], Marker),
                     "none"),
              CustomObjectsFrom(ls, i + 1))

\* _test_custom_objects leaving its loop at the first offending line.
RECURSIVE MutFirstOnlyFrom(_, _)
MutFirstOnlyFrom(ls, i) ==
    IF i > Len(ls)
    THEN Passed
    ELSE IF Contains(ls[i], Marker)
    THEN Result(<<Issue("python-object", <<>>, "", <<>>, i - 1)>>, FALSE, "none")
    ELSE MutFirstOnlyFrom(ls, i + 1)

MutCustomObjectsFirstOnly(ls) == MutFirstOnlyFrom(ls, 1)

\* range(0, len(lines)): the issue prints the index counted from 0.
_test_custom_objects(ls) == CustomObjectsFrom(ls, 1)

HasLangAttr(child) ==
    \E i \in 1..Len(child.attrib) :
        child.attrib[i].name = XmlLang /\ child.attrib[i].value # ""

\* _validate_description_tag without its tests of the attributes.
MutTagIgnoresAttributes(docid, child, allowed_tags) ==
    Result(When(child.tag \notin allowed_tags,
                Issue("invalid-markup", docid, "Description", <<child.tag>>, 0)),
           child.tag \in allowed_tags,
           "none")

_validate_description_tag(docid, child, allowed_tags) ==
    LET badTag == child.tag \notin allowed_tags
        badLang == HasLangAttr(child)
        badAttr == ~badLang /\ Len(child.attrib) > 0
    IN  Result(
            When(badTag, Issue("invalid-markup", docid, "Description", <<child.tag>>, 0))
            \o When(badLang, Issue("localized-tag", docid, "Description", <<child.tag>>, 0))
            \o When(badAttr, Issue("tag-attributes", docid, "Description", <<child.tag>>, 0)),
            ~badTag /\ ~badLang /\ ~badAttr,
            "none")

RECURSIVE DescriptionList(_, _, _)
DescriptionList(docid, kids, i) ==
    IF i > Len(kids)
    THEN Passed
    ELSE Then(_validate_description_tag(docid, kids[i], {"li"}),
              DescriptionList(docid, kids, i + 1))

RECURSIVE DescriptionChildren(_, _, _)
DescriptionChildren(docid, elems, i) ==
    IF i > Len(elems)
    THEN Passed
    ELSE Then(Then(_validate_description_tag(docid, elems[i], {"p", "ul", "ol"}),
                   IF elems[i].tag \in {"ul", "ol"}
                   THEN DescriptionList(docid, elems[i].kids, 1)
                   ELSE Passed),
              DescriptionChildren(docid, elems, i + 1))

_validate_description(docid, desc) ==
    IF ~desc.xml.ok
    THEN Result(<<Issue("broken-markup", docid, "Description", <<>>, 0)>>,
                FALSE, "none")
    ELSE DescriptionChildren(docid, desc.xml.elems, 1)

\* ------------------------------------------------------------------------
\* validate(): the checks on one component document
\* ------------------------------------------------------------------------
\* "if icon": the Icon mapping is there and has a key.
IconTruthy(icon) ==
    /\ icon.ty = "dict"
    /\ \E v \in {icon.stock, icon.cached, icon.local, icon.remote} :
           v.ty # "absent"

ApplicationTypes == {<<"desktop-app">>, <<"web-app">>}

\* The tests for the icon key with 'remote' counted as a usable icon.
MutIconRulesRemoteCounts(doc) ==
    LET id == doc.ID.s
        icon == doc.Icon
        needsIcon == doc.Type.s \in ApplicationTypes /\ ~IconTruthy(icon)
        noUsable ==
            /\ IconTruthy(icon)
            /\ ~Truthy(icon.stock)
            /\ ~Truthy(icon.cached)
            /\ ~Truthy(icon.local)
            /\ ~Truthy(icon.remote)
    IN  Result(
            When(needsIcon, Issue("icon-required", id, "Icon", <<>>, 0))
            \o When(noUsable, Issue("icon-unusable", id, "Icon", <<>>, 0)),
            ~needsIcon /\ ~noUsable,
            "none")

\* The tests for the icon key.
IconRules(doc) ==
    LET id == doc.ID.s
        icon == doc.Icon
        needsIcon == doc.Type.s \in ApplicationTypes /\ ~IconTruthy(icon)
        noUsable ==
            /\ IconTruthy(icon)
            /\ ~Truthy(icon.stock)
            /\ ~Truthy(icon.cached)
            /\ ~Truthy(icon.local)
    IN  Result(
            When(needsIcon, Issue("icon-required", id, "Icon", <<>>, 0))
            \o When(noUsable, Issue("icon-unusable", id, "Icon", <<>>, 0)),
            ~needsIcon /\ ~noUsable,
            "none")

\* for shot in doc.get('Screenshots', list()): audit each caption.
RECURSIVE CaptionsFrom(_, _, _)
CaptionsFrom(doc, shots, i) ==
    IF i > Len(shots)
    THEN Passed
    ELSE Then(IF shots[i].caption.ty = "absent" \/ shots[i].caption.items = <<>>
              THEN Passed
              ELSE _test_localized_dict(doc, shots[i].caption, "Screenshots.caption"),
              CaptionsFrom(doc, shots, i + 1))

\* The loop over desc.values() left at the first value that does not
\* parse.
RECURSIVE MutDescriptionsStopAtBroken(_, _, _)
MutDescriptionsStopAtBroken(docid, items, i) ==
    IF i > Len(items)
    THEN Passed
    ELSE IF ~items[i].value.xml.ok
    THEN _validate_description(docid, items[i].value)
    ELSE Then(_validate_description(docid, items[i].value),
              MutDescriptionsStopAtBroken(docid, items, i + 1))

\* for d in desc.values(): validate the markup of each value.
RECURSIVE DescriptionsFrom(_, _, _)
DescriptionsFrom(docid, items, i) ==
    IF i > Len(items)
    THEN Passed
    ELSE Then(_validate_description(docid, items[i].value),
              DescriptionsFrom(docid, items, i + 1))

\* Everything validate() does with a document that passed the schema.
SemanticChecks(doc) ==
    Then(IconRules(doc),
    Then(_test_localized(doc, "Name"),
    Then(_test_localized(doc, "Summary"),
    Then(_test_localized(doc, "Description"),
    Then(_test_localized(doc, "DeveloperName"),
    Then(CaptionsFrom(doc, doc.Screenshots.items, 1),
         DescriptionsFrom(doc.ID.s, doc.Description.items, 1)))))))

\* One outcome of the loop body: the path it took, what it appended, what
\* it leaves of ret, the exception that ended it and the keys of ids_found.
Outcome(path, r, ids) ==
    [path |-> path, issues |-> r.issues, ok |-> r.ok, raised |-> r.raised,
     ids |-> ids]

\* "ret = False" and "continue" without the add_issue before them.
MutFailedSilent(issue) == Result(<<>>, FALSE, "none")

\* add_issue(...), "ret = False", "continue": the way the loop rejects a
\* document.
Failed(issue) == Result(<<issue>>, FALSE, "none")
Raised(exc) == Result(<<>>, TRUE, exc)

\* The missing-ID test written "if docid is None".
MutMissingOnlyNone(doc) == doc.ID.ty = "absent"

\* "if not docid".
MissingID(doc) == ~Truthy(doc.ID)

\* "if ids_found.get(docid)".
DuplicateID(doc, ids) == doc.ID \in ids

\* The registration of the ID left out.
MutForgetID(doc, ids) == ids

\* "ids_found[docid] = True".
RegisterID(doc, ids) == ids \cup {doc.ID}

\* The except clause without its "continue": the semantic checks follow.
MutSchemaThenSemantic(doc, e) ==
    LET r == Then(Result(<<Issue("schema", doc.ID.s, e.key, <<e.msg>>, 0)>>, TRUE, "none"),
                  SemanticChecks(doc))
    IN  Result(r.issues, FALSE, r.raised)

\* The except clause around schema_component(doc): one issue with str(e),
\* ret = False, continue.
SchemaRejected(doc, e) ==
    Failed(Issue("schema", doc.ID.s, e.key, <<e.msg>>, 0))

\* The turn of the loop with "ids_found[docid] = True" moved behind the
\* schema check: a document the schema rejects leaves its ID unregistered.
MutRegisterAfterSchema(doc, ids) ==
    IF doc.kind = "parse-error"
    THEN {Outcome("stream-error", Raised("YAMLError"), ids)}
    ELSE IF doc.kind # "map"
    THEN {Outcome("no-get", Raised("AttributeError"), ids)}
    ELSE IF EmptyMapping(doc)
    THEN {Outcome("empty", Failed(Issue("empty-document", <<>>, "", <<>>, 0)), ids)}
    ELSE IF MissingID(doc)
    THEN {Outcome("missing-id", Failed(Issue("missing-id", <<>>, "", <<>>, 0)), ids)}
    ELSE IF ~Hashable(doc.ID)
    THEN {Outcome("unhashable-id", Raised("TypeError"), ids)}
    ELSE IF DuplicateID(doc, ids)
    THEN {Outcome("duplicate", Failed(Issue("duplicate-id", doc.ID.s, "", <<>>, 0)), ids)}
    ELSE IF ~schema_component(doc)
    THEN {Outcome("schema", SchemaRejected(doc, e), ids) : e \in FirstErrors(doc)}
    ELSE {Outcome("semantic", SemanticChecks(doc), RegisterID(doc, ids))}

\* The outcomes of one turn of "for doc in docs" (several only where the
\* first schema error is not determined).
ComponentOutcomes(doc, ids) ==
    IF doc.kind = "parse-error"
    THEN {Outcome("stream-error", Raised("YAMLError"), ids)}
    ELSE IF doc.kind # "map"
    THEN {Outcome("no-get", Raised("AttributeError"), ids)}
    ELSE IF EmptyMapping(doc)
    THEN {Outcome("empty", Failed(Issue("empty-document", <<>>, "", <<>>, 0)), ids)}
    ELSE IF MissingID(doc)
    THEN {Outcome("missing-id", Failed(Issue("missing-id", <<>>, "", <<>>, 0)), ids)}
    ELSE IF ~Hashable(doc.ID)
    THEN {Outcome("unhashable-id", Raised("TypeError"), ids)}
    ELSE IF DuplicateID(doc, ids)
    THEN {Outcome("duplicate", Failed(Issue("duplicate-id", doc.ID.s, "", <<>>, 0)), ids)}
    ELSE IF ~schema_component(doc)
    THEN {Outcome("schema", SchemaRejected(doc, e), RegisterID(doc, ids)) :
             e \in FirstErrors(doc)}
    ELSE {Outcome("semantic", SemanticChecks(doc), RegisterID(doc, ids))}

\* ------------------------------------------------------------------------
\* The files validated
\* ------------------------------------------------------------------------
RECURSIVE SeqsUpTo(_, _)
SeqsUpTo(S, n) ==
    IF n = 0
    THEN {<<>>}
    ELSE LET shorter == SeqsUpTo(S, n - 1)
         IN  shorter \cup {Append(s, x) : s \in shorter, x \in S}

CleanLine == <<"Name:", " ", "x">>
TaggedLine == <<"x:", " ", Marker, "object">>
LinePool == {CleanLine, TaggedLine}

GoodHeader == Header(Str(DEP11), Str(<<"o">>), Str(<<"1", ".", "1">>), FALSE)
BadHeader == Header(Str(<<"dep">>), Str(<<"o">>), Str(<<"1", ".", "1">>), FALSE)

\* Headers tried on files with no component document.
VersionPool ==
    {Absent, Num(<<"1", ".", "1">>)}
    \cup {Str(v) : v \in SeqsUpTo({"1", ".", "x"}, MaxVerLen)}

HeaderPool ==
    {Header(f, o, v, x) :
        f \in {Absent, Str(DEP11), Str(<<"dep">>)},
        o \in {Absent, Str(<<>>), Str(<<"o">>), Num(<<"1">>)},
        v \in VersionPool,
        x \in BOOLEAN}
    \cup {HeaderParseError, HeaderNoDocument, HeaderNull, HeaderScalar}

\* Headers tried on files with component documents.
FewHeaders == {GoodHeader, BadHeader, HeaderParseError}

GoodName == LMap(<<Item(<<"C">>, Text(<<"n">>))>>)
Pkgs == ListOf(<<Str(<<"pkg">>)>>)
Generic == Str(<<"generic">>)
DesktopApp == Str(<<"desktop-app">>)
IdA == Str(<<"a">>)
IdB == Str(<<"b">>)

Plain(id) == Component(id, Generic, GoodName, Pkgs, NoIcon, NoMap, NoMap, NoMap, NoList)

EmptyDoc == Component(Absent, Absent, NoMap, NoList, NoIcon, NoMap, NoMap, NoMap, NoList)

\* Name maps with locale defects.
CruftName ==
    LMap(<<Item(<<"C">>, Text(<<"n">>)), Item(<<"x-test">>, Text(<<"\"", "n">>))>>)
SpaceName ==
    LMap(<<Item(<<"C">>, Text(<<"n">>)), Item(<<"en", " ", "US">>, Text(<<"n">>))>>)
NumberName ==
    LMap(<<Item(<<"C">>, Text(<<"n">>)),
           Item(<<"de", ".UTF-8">>, LVal("num", <<"5">>, Parsed(<<>>)))>>)

\* An application without Icon and with a cruft locale, which is schema
\* valid, and the same document without its Packages.
AppNoIcon(id) == Component(id, DesktopApp, CruftName, Pkgs, NoIcon, NoMap, NoMap, NoMap, NoList)
AppNoPackages(id) == Component(id, DesktopApp, CruftName, NoList, NoIcon, NoMap, NoMap, NoMap, NoList)

DocPool ==
    {DocParseError, DocNull, DocScalar, EmptyDoc,
     Plain(Absent), AppNoIcon(Str(<<>>)), Plain(PyList(<<"a">>)),
     Plain(IdA), Plain(IdB), Plain(Num(<<"7">>)),
     AppNoIcon(IdA), AppNoPackages(IdA),
     Component(IdB, Generic, CruftName, Pkgs, NoIcon, NoMap, NoMap, NoMap, NoList),
     Component(IdB, Generic, SpaceName, Pkgs, NoIcon, NoMap, NoMap, NoMap, NoList),
     Component(IdA, Generic, NumberName, Pkgs, NoIcon, NoMap, NoMap, NoMap, NoList)}

\* ------------------------------------------------------------------------
\* Components that exercise the checks behind the schema
\* ------------------------------------------------------------------------
MaxKids == 2
MaxElems == 2

Leaf(tag, attrib) == Elem(tag, attrib, <<>>)

StartToken(e) == (CHOOSE r \in StartTags : r.tag = e.tag /\ r.attrib = e.attrib).tok
EndToken(e) == (CHOOSE r \in EndTags : r.tag = e.tag).tok

\* The text of a sequence of elements, from element i on; an element
\* without children holds character data.
RECURSIVE ToMarkup(_, _)
ToMarkup(elems, i) ==
    IF i > Len(elems)
    THEN <<>>
    ELSE <<StartToken(elems[i])>>
         \o (IF elems[i].kids = <<>> THEN <<"x">> ELSE ToMarkup(elems[i].kids, 1))
         \o <<EndToken(elems[i])>>
         \o ToMarkup(elems, i + 1)

AttrPool == {a.attrib : a \in AttrTexts}

ListKids == {Leaf("li", a) : a \in AttrPool} \cup {Leaf("p", <<>>)}

Paragraphs == {Elem("p", a, k) : a \in AttrPool, k \in {<<>>, <<Leaf("b", <<>>)>>}}

Lists ==
    {Elem("ul", a, k) : a \in AttrPool, k \in SeqsUpTo(ListKids, MaxKids)}
    \cup {Elem("ol", <<>>, k) : k \in SeqsUpTo(ListKids, MaxKids)}

TopElems == Paragraphs \cup Lists \cup {Leaf("b", <<>>)}

FewElems ==
    {Leaf("p", <<>>), Leaf("b", <<>>), Elem("ul", <<>>, <<Leaf("li", <<>>)>>),
     Elem("ol", <<>>, <<Leaf("p", <<>>)>>)}

BrokenMarkup ==
    {<<"<p>", "x">>, <<"x", "</p>">>, <<"<ul>", "<li>", "x", "</ul>">>, <<"x", "&", "x">>}

\* Description texts: one element of any shape, a few elements in a row,
\* plain text, and texts that are not well formed.
MarkupPool ==
    {ToMarkup(<<e>>, 1) : e \in TopElems}
    \cup {ToMarkup(es, 1) : es \in SeqsUpTo(FewElems, MaxElems)}
    \cup {<<"x">>}
    \cup BrokenMarkup

OneLocale(v) == LMap(<<Item(<<"C">>, v)>>)
TwoLocales(v, w) == LMap(<<Item(<<"C">>, v), Item(<<"de">>, w)>>)

DescDoc(id, desc) == Component(id, Generic, GoodName, Pkgs, NoIcon, NoMap, desc, NoMap, NoList)

DescriptionDocs == {DescDoc(IdA, OneLocale(Markup(t))) : t \in MarkupPool}

FewMarkup == {<<"<p>", "x">>, <<"<p>", "x", "</p>">>, <<"<b>", "x", "</b>">>}

TwoLocaleDocs ==
    {DescDoc(IdA, TwoLocales(Markup(t), Markup(u))) : t \in FewMarkup, u \in FewMarkup}

Followers == {Plain(IdB), DescDoc(IdB, OneLocale(Markup(<<"<b>", "x", "</b>">>)))}

\* Localized maps: 'C' and one more locale.
LangPool ==
    {<<"de">>, <<"x-test">>, <<"xx">>, <<"de", ".UTF-8">>, <<"en", " ", "US">>,
     <<"en", "\t", "US">>}

ValuePool ==
    {Text(<<"n">>), Text(<<"\"", "n">>), Text(<<"'", "n">>),
     LVal("num", <<"5">>, Parsed(<<>>))}

Localized(lang, v) == LMap(<<Item(<<"C">>, Text(<<"n">>)), Item(lang, v)>>)

GoodImage == Image(10, 10, Str(<<"http", "://", "h">>))

LocalizedFields == {"Name", "Summary", "Description", "DeveloperName", "caption"}

WithLocalized(field, m) ==
    Component(IdA, Generic,
              IF field = "Name" THEN m ELSE GoodName,
              Pkgs, NoIcon,
              IF field = "Summary" THEN m ELSE NoMap,
              IF field = "Description" THEN m ELSE NoMap,
              IF field = "DeveloperName" THEN m ELSE NoMap,
              IF field = "caption" THEN ListOf(<<Shot(GoodImage, m)>>) ELSE NoList)

LocalizedDocs ==
    {WithLocalized(f, Localized(l, v)) : f \in LocalizedFields, l \in LangPool, v \in ValuePool}

\* Components of each kind with each shape of Icon.
IconPool ==
    {NoIcon,
     Icon(Str(<<"foo">>), Absent, Absent, Absent),
     Icon(Absent, Str(<<"a", ".", "png">>), Absent, Absent),
     Icon(Absent, Absent, Str(<<"/", "a">>), Absent),
     Icon(Absent, Absent, Str(<<>>), Absent),
     Icon(Absent, Absent, Absent, Str(<<"http", "://", "h">>)),
     Icon(Str(<<"foo">>), Absent, Absent, Str(<<"http", "://", "h">>)),
     Icon(Absent, Absent, Absent, Absent),
     Icon(Str(<<>>), Absent, Absent, Absent)}

TypePool == {Generic, DesktopApp, Str(<<"web-app">>), Str(<<"font">>)}

IconDoc(type, icon) == Component(IdA, type, GoodName, Pkgs, icon, NoMap, NoMap, NoMap, NoList)

IconDocs == {IconDoc(t, i) : t \in TypePool, i \in IconPool}

\* Components that lack required keys or hold invalid values under them.
SchemaDocs ==
    {Component(IdA, t, n, p, NoIcon, NoMap, NoMap, NoMap, NoList) :
        t \in {Absent, Generic, Str(<<"bogus">>)},
        n \in {NoMap, GoodName, LMap(<<>>)},
        p \in {NoList, Pkgs, ListOf(<<>>)}}

SemanticPool ==
    DescriptionDocs \cup TwoLocaleDocs \cup LocalizedDocs \cup IconDocs \cup SchemaDocs

\* ------------------------------------------------------------------------
\* The state machine
\* ------------------------------------------------------------------------
\* One step of a run, as the trace keeps it: the document it was about
\* (0: none), the path taken, whether the check passed, and the places in
\* issue_list of the issues it appended (first > last: none).
Step(step, doc, path, ok, first, last) ==
    [step |-> step, doc |-> doc, path |-> path, ok |-> ok, first |-> first,
     last |-> last]

Call(call, inst, outcome, exc, verdict, issues, first) ==
    [call |-> call, self |-> inst, outcome |-> outcome, exc |-> exc,
     verdict |-> verdict, issues |-> issues, first |-> first]

\* self.issue_list on any instance finds the class attribute: nothing ever
\* binds the name on an instance.
IssueListOf(inst) == issue_list

ValidateCalls == Cardinality({k \in DOMAIN results : results[k].call = "validate"})

Init ==
    /\ \/ /\ lines \in SeqsUpTo(LinePool, MaxLines)
          /\ header \in HeaderPool
          /\ docs = <<>>
       \/ /\ lines \in SeqsUpTo(LinePool, MaxLines)
          /\ header \in FewHeaders
          /\ docs \in SeqsUpTo(DocPool, MaxDocs) \ {<<>>}
    /\ issue_list = <<>>
    /\ pc = "idle"
    /\ self = 0
    /\ ret = TRUE
    /\ ids_found = {}
    /\ pos = 0
    /\ trace = <<>>
    /\ results = <<>>

\* validate(fname) is called on instance inst: the locals are set, the file
\* is read and the raw lines are scanned for Python objects.
Validate(inst) ==
    /\ pc = "idle"
    /\ LET r == _test_custom_objects(lines)
       IN  /\ issue_list' = IssueListOf(inst) \o r.issues
           /\ ret' = r.ok
           /\ trace' = <<Step("prepass", 0, "", r.ok, Len(issue_list) + 1,
                              Len(issue_list) + Len(r.issues))>>
    /\ self' = inst
    /\ ids_found' = {}
    /\ pos' = 0
    /\ pc' = "parse"
    /\ UNCHANGED <<lines, header, docs, results>>

\* ParseHeader returning ret, not False, from its except clause.
MutParseHeaderKeepsRet ==
    /\ pc = "parse"
    /\ IF header.kind \in {"parse-error", "empty-stream"}
       THEN /\ issue_list' = Append(issue_list, Issue("could-not-parse", <<>>, "", <<>>, 0))
            /\ trace' = Append(trace, Step("parse", 0, "abort", FALSE, Len(issue_list) + 1,
                                           Len(issue_list) + 1))
            /\ results' = Append(results, Call("validate", self, "returned", "none", ret,
                                               issue_list', trace[1].first))
            /\ pc' = "idle"
       ELSE /\ trace' = Append(trace, Step("parse", 0, "ok", TRUE, Len(issue_list) + 1,
                                           Len(issue_list)))
            /\ pc' = "header"
            /\ UNCHANGED <<issue_list, results>>
    /\ UNCHANGED <<lines, header, docs, self, ret, ids_found, pos>>

\* docs = yaml.load_all(f); header = next(docs), with its except clause.
ParseHeader ==
    /\ pc = "parse"
    /\ IF header.kind \in {"parse-error", "empty-stream"}
       THEN /\ issue_list' = Append(issue_list, Issue("could-not-parse", <<>>, "", <<>>, 0))
            /\ trace' = Append(trace, Step("parse", 0, "abort", FALSE, Len(issue_list) + 1,
                                           Len(issue_list) + 1))
            /\ results' = Append(results, Call("validate", self, "returned", "none", FALSE,
                                               issue_list', trace[1].first))
            /\ pc' = "idle"
       ELSE /\ trace' = Append(trace, Step("parse", 0, "ok", TRUE, Len(issue_list) + 1,
                                           Len(issue_list)))
            /\ pc' = "header"
            /\ UNCHANGED <<issue_list, results>>
    /\ UNCHANGED <<lines, header, docs, self, ret, ids_found, pos>>

\* CheckHeader returning False from its except clause.
MutCheckHeaderAborts ==
    /\ pc = "header"
    /\ IF schema_header(header)
       THEN /\ trace' = Append(trace, Step("header", 0, "ok", TRUE, Len(issue_list) + 1,
                                           Len(issue_list)))
            /\ pc' = "loop"
            /\ UNCHANGED <<issue_list, ret, results>>
       ELSE /\ issue_list' = Append(issue_list, Issue("invalid-header", <<>>, "", <<>>, 0))
            /\ ret' = FALSE
            /\ trace' = Append(trace, Step("header", 0, "invalid", FALSE, Len(issue_list) + 1,
                                           Len(issue_list) + 1))
            /\ results' = Append(results, Call("validate", self, "returned", "none", FALSE,
                                               issue_list', trace[1].first))
            /\ pc' = "idle"
    /\ UNCHANGED <<lines, header, docs, self, ids_found, pos>>

\* schema_header(header), with its except clause.
CheckHeader ==
    /\ pc = "header"
    /\ IF schema_header(header)
       THEN /\ trace' = Append(trace, Step("header", 0, "ok", TRUE, Len(issue_list) + 1,
                                           Len(issue_list)))
            /\ UNCHANGED <<issue_list, ret>>
       ELSE /\ issue_list' = Append(issue_list, Issue("invalid-header", <<>>, "", <<>>, 0))
            /\ ret' = FALSE
            /\ trace' = Append(trace, Step("header", 0, "invalid", FALSE, Len(issue_list) + 1,
                                           Len(issue_list) + 1))
    /\ pc' = "loop"
    /\ UNCHANGED <<lines, header, docs, self, ids_found, pos, results>>

\* One turn of "for doc in docs".
CheckComponent ==
    /\ pc = "loop"
    /\ pos < Len(docs)
    /\ \E o \in ComponentOutcomes(docs[pos + 1], ids_found) :
           /\ issue_list' = issue_list \o o.issues
           /\ trace' = Append(trace, Step("component", pos + 1, o.path, o.ok, Len(issue_list) + 1,
                                          Len(issue_list) + Len(o.issues)))
           /\ IF o.raised # "none"
              THEN /\ results' = Append(results, Call("validate", self, "raised", o.raised,
                                                      FALSE, issue_list', trace[1].first))
                   /\ pc' = "idle"
                   /\ UNCHANGED <<ret, ids_found, pos>>
              ELSE /\ ret' = (ret /\ o.ok)
                   /\ ids_found' = o.ids
                   /\ pos' = pos + 1
                   /\ UNCHANGED <<pc, results>>
    /\ UNCHANGED <<lines, header, docs, self>>

\* The generator is exhausted: return ret.
Return ==
    /\ pc = "loop"
    /\ pos = Len(docs)
    /\ results' = Append(results, Call("validate", self, "returned", "none", ret,
                                       issue_list, trace[1].first))
    /\ trace' = Append(trace, Step("return", 0, "", ret, Len(issue_list) + 1, Len(issue_list)))
    /\ pc' = "idle"
    /\ UNCHANGED <<lines, header, docs, issue_list, self, ret, ids_found, pos>>

\* validator.clear_issues(): the method takes no self, so the call raises
\* TypeError before its body runs.
ClearIssues(inst) ==
    /\ pc = "idle"
    /\ results # <<>>
    /\ results[Len(results)].call = "validate"
    /\ results' = Append(results, Call("clear_issues", inst, "raised", "TypeError", FALSE,
                                       IssueListOf(inst), Len(issue_list) + 1))
    /\ UNCHANGED <<lines, header, docs, issue_list, pc, self, ret, ids_found, pos, trace>>

\* main(): one validator, one validate() call.
Next ==
    \/ results = <<>> /\ Validate(1)
    \/ ParseHeader
    \/ CheckHeader
    \/ CheckComponent
    \/ Return

Spec == Init /\ [][Next]_vars

\* A process that validates again, on the same instance or on a new one,
\* and may call clear_issues() between the runs.
NextAgain ==
    \/ \E inst \in 1..MaxRuns :
           /\ ValidateCalls < MaxRuns
           /\ inst <= ValidateCalls + 1
           /\ Validate(inst)
    \/ ParseHeader
    \/ CheckHeader
    \/ CheckComponent
    \/ Return
    \/ \E inst \in 1..MaxRuns : inst <= ValidateCalls /\ ClearIssues(inst)

InitAgain ==
    /\ lines \in SeqsUpTo(LinePool, MaxLines)
    /\ header \in FewHeaders \cup {HeaderNoDocument}
    /\ docs \in SeqsUpTo(DocPool, MaxAgainDocs)
    /\ issue_list = <<>>
    /\ pc = "idle"
    /\ self = 0
    /\ ret = TRUE
    /\ ids_found = {}
    /\ pos = 0
    /\ trace = <<>>
    /\ results = <<>>

SpecAgain == InitAgain /\ [][NextAgain]_vars

\* main() on a catalog with a valid header and one component that reaches
\* the checks behind the ID tests, or two where the second follows a
\* component with a description in two locales.
InitSemantic ==
    /\ lines = <<>>
    /\ header = GoodHeader
    /\ docs \in {<<d>> : d \in SemanticPool}
                \cup {<<d, e>> : d \in TwoLocaleDocs, e \in Followers}
    /\ issue_list = <<>>
    /\ pc = "idle"
    /\ self = 0
    /\ ret = TRUE
    /\ ids_found = {}
    /\ pos = 0
    /\ trace = <<>>
    /\ results = <<>>

SpecSemantic == InitSemantic /\ [][Next]_vars

\* A process that validates one file after another, each with a
\* DEP11Validator of its own.
File(ls, h, ds) == [lines |-> ls, header |-> h, docs |-> ds]

FilePool ==
    {File(<<>>, GoodHeader, <<Plain(IdA)>>),
     File(<<TaggedLine>>, GoodHeader, <<>>),
     File(<<>>, BadHeader, <<Plain(IdA)>>),
     File(<<>>, GoodHeader, <<AppNoIcon(IdA)>>),
     File(<<CleanLine>>, HeaderParseError, <<>>),
     File(<<>>, GoodHeader, <<Plain(IdA), Plain(IdA)>>),
     File(<<CleanLine>>, GoodHeader, <<DocNull>>)}

CurrentFile == File(lines, header, docs)

\* validate(fname) of a new instance inst on a file other than the one
\* validated before.
ValidateOther(inst) ==
    /\ pc = "idle"
    /\ results # <<>>
    /\ \E f \in FilePool \ {CurrentFile} :
           /\ lines' = f.lines
           /\ header' = f.header
           /\ docs' = f.docs
           /\ LET r == _test_custom_objects(f.lines)
              IN  /\ issue_list' = IssueListOf(inst) \o r.issues
                  /\ ret' = r.ok
                  /\ trace' = <<Step("prepass", 0, "", r.ok, Len(issue_list) + 1,
                                     Len(issue_list) + Len(r.issues))>>
    /\ self' = inst
    /\ ids_found' = {}
    /\ pos' = 0
    /\ pc' = "parse"
    /\ UNCHANGED results

NextFiles ==
    \/ results = <<>> /\ Validate(1)
    \/ ValidateCalls < MaxRuns /\ ValidateOther(ValidateCalls + 1)
    \/ ParseHeader
    \/ CheckHeader
    \/ CheckComponent
    \/ Return

InitFiles ==
    /\ \E f \in FilePool :
           /\ lines = f.lines
           /\ header = f.header
           /\ docs = f.docs
    /\ issue_list = <<>>
    /\ pc = "idle"
    /\ self = 0
    /\ ret = TRUE
    /\ ids_found = {}
    /\ pos = 0
    /\ trace = <<>>
    /\ results = <<>>

SpecFiles == InitFiles /\ [][NextFiles]_vars

\* main() as the interpreter runs it: a statement that can be executed is
\* executed, so the run goes on until validate() returns or raises.
SpecLive == InitAgain /\ [][Next]_vars /\ WF_vars(Next)

\* ------------------------------------------------------------------------
\* Reading a run from the state
\* ------------------------------------------------------------------------
RunEnded == pc = "idle" /\ results # <<>>
Last == results[Len(results)]
Returned == RunEnded /\ Last.outcome = "returned"

HeaderRead == header.kind \notin {"parse-error", "empty-stream"}

ComponentSteps == {k \in DOMAIN trace : trace[k].step = "component"}
HeaderSteps == {k \in DOMAIN trace : trace[k].step = "header"}
DocOf(k) == docs[trace[k].doc]

\* The issues step k of the trace appended.
Added(k) == SubSeq(issue_list, trace[k].first, trace[k].last)

AllDocsTaken == \A d \in 1..Len(docs) : \E k \in ComponentSteps : trace[k].doc = d

MarkedLines == {i \in DOMAIN lines : Contains(lines[i], Marker)}

\* The document of step k has a non-empty ID; an earlier document of the
\* catalog carries the same ID.
NonEmptyID(doc) == doc.kind = "map" /\ Truthy(doc.ID)
SeenEarlier(k) ==
    \E e \in 1..(trace[k].doc - 1) :
        docs[e].kind = "map" /\ docs[e].ID = DocOf(k).ID

\* ------------------------------------------------------------------------
\* Claims
\* ------------------------------------------------------------------------

\* C1: for a catalog that splits into documents, a finished validate() has
\* returned, has taken every component document, and its verdict is the
\* conjunction of the outcomes of all its checks.  (Stated as claimed; the
\* code breaks it where an exception leaves the loop.)
C1_NoEarlyStop ==
    (RunEnded /\ HeaderRead /\ \A d \in DOMAIN docs : docs[d].kind # "parse-error") =>
        /\ Last.outcome = "returned"
        /\ AllDocsTaken
        /\ Last.verdict = (\A k \in DOMAIN trace : trace[k].ok)

\* A document with a non-empty ID no earlier document carries, which
\* violates the component schema.
SchemaViolator(k) ==
    /\ k \in ComponentSteps
    /\ NonEmptyID(DocOf(k))
    /\ Hashable(DocOf(k).ID)
    /\ ~SeenEarlier(k)
    /\ ~schema_component(DocOf(k))

C3_NoExceptionEscapes ==
    \A c \in DOMAIN results :
        results[c].call = "validate" => results[c].outcome = "returned"

\* C4: two validate() runs on the same file give the same verdict and the
\* same issue list.  (Stated as claimed; the code breaks it.)
C4_SecondRunSameIssues ==
    \A b, c \in DOMAIN results :
        (/\ b < c
         /\ results[b].call = "validate" /\ results[b].outcome = "returned"
         /\ results[c].call = "validate" /\ results[c].outcome = "returned") =>
            /\ results[b].verdict = results[c].verdict
            /\ results[b].issues = results[c].issues

DuplicateIssues(id) ==
    {i \in DOMAIN issue_list :
        issue_list[i].kind = "duplicate-id" /\ issue_list[i].id = id.s}

TakenWithID(id) ==
    {k \in ComponentSteps : DocOf(k).kind = "map" /\ DocOf(k).ID = id}

\* C5: a document whose non-empty ID an earlier document carries is
\* rejected: its turn adds exactly the duplicate-ID issue naming the ID,
\* leaves ret false and runs no other check.  The first document with an
\* ID adds no duplicate-ID issue, and two documents sharing an ID leave
\* exactly one duplicate-ID issue for it.
C5_DuplicateRejected ==
    /\ \A k \in ComponentSteps :
           NonEmptyID(DocOf(k)) =>
               IF SeenEarlier(k)
               THEN /\ trace[k].path = "duplicate"
                    /\ Added(k) = <<Issue("duplicate-id", DocOf(k).ID.s, "", <<>>, 0)>>
                    /\ ~ret
               ELSE \A j \in DOMAIN Added(k) : Added(k)[j].kind # "duplicate-id"
    /\ \A d \in DOMAIN docs :
           (NonEmptyID(docs[d]) /\ Cardinality(TakenWithID(docs[d].ID)) = 2) =>
               Cardinality(DuplicateIssues(docs[d].ID)) = 1

C5_Witness ==
    \E k \in ComponentSteps :
        /\ NonEmptyID(DocOf(k))
        /\ SeenEarlier(k)
        /\ DocOf(k) # docs[1]
        /\ Returned

\* A mapping document whose ID is absent or empty.
NoID(k) == k \in ComponentSteps /\ DocOf(k).kind = "map" /\ ~Truthy(DocOf(k).ID)

\* C6 as claimed: every document with an absent or empty ID adds exactly
\* one missing-ID issue, leaves ret false and gets no other check; no empty
\* ID is ever a key of ids_found.
C6_MissingIDIssue ==
    /\ \A k \in DOMAIN trace :
           NoID(k) =>
               /\ Added(k) = <<Issue("missing-id", <<>>, "", <<>>, 0)>>
               /\ trace[k].path = "missing-id"
               /\ ~ret
    /\ \A id \in ids_found : Truthy(id)

\* C6 amended: the same for every document with an absent or empty ID that
\* has some key; a mapping with no key at all adds exactly one
\* empty-document issue instead, and is skipped the same way.
C6_MissingOrEmptyDocument ==
    /\ \A k \in DOMAIN trace :
           NoID(k) =>
               /\ Added(k) =
                      IF EmptyMapping(DocOf(k))
                      THEN <<Issue("empty-document", <<>>, "", <<>>, 0)>>
                      ELSE <<Issue("missing-id", <<>>, "", <<>>, 0)>>
               /\ trace[k].path = IF EmptyMapping(DocOf(k)) THEN "empty" ELSE "missing-id"
               /\ ~ret
    /\ \A id \in ids_found : Truthy(id)
    /\ \A i \in DOMAIN issue_list :
           issue_list[i].kind = "duplicate-id" => issue_list[i].id # <<>>

C6_Witness ==
    /\ Returned
    /\ Len(docs) = 2
    /\ AllDocsTaken
    /\ docs[1] = docs[2]
    /\ docs[1].kind = "map"
    /\ docs[1].ID = Str(<<>>)

\* The header passes its three checks, stated without the schema: File is
\* the string "DEP-11", Origin a non-empty string, Version a string of
\* digits and single dots that starts with a digit.
DottedNumeric(s) ==
    /\ Len(s) >= 1
    /\ IsDigit(s[1])
    /\ \A i \in 1..Len(s) : IsDigit(s[i]) \/ s[i] = "."
    /\ \A i \in 1..(Len(s) - 1) : ~(s[i] = "." /\ s[i + 1] = ".")

ThreeChecks(h) ==
    /\ h.kind = "map"
    /\ h.File = Str(<<"DEP-11">>)
    /\ h.Origin.ty = "str" /\ h.Origin.s # <<>>
    /\ h.Version.ty = "str" /\ DottedNumeric(h.Version.s)

\* C7 as claimed: with a header that parses and no component document, the
\* verdict is true exactly when the header passes its three checks.
C7_ThreeChecksDecide ==
    (Returned /\ docs = <<>> /\ HeaderRead) => (Last.verdict <=> ThreeChecks(header))

\* C7 amended: ... exactly when the header passes its three checks, has no
\* other key, and no raw line holds the "!!python/" marker.
C7_HeaderOnlyVerdict ==
    (RunEnded /\ docs = <<>> /\ HeaderRead) =>
        /\ Last.outcome = "returned"
        /\ Last.verdict <=>
               (ThreeChecks(header) /\ ~header.extra /\ MarkedLines = {})

C7_Witness ==
    /\ Returned
    /\ docs = <<>>
    /\ HeaderRead
    /\ Last.verdict
    /\ Len(header.Version.s) >= 2
    /\ lines # <<>>

\* The IDs validate() holds in ids_found when it takes document d, read
\* from the catalog alone.
IdsBefore(d) ==
    {docs[e].ID : e \in {x \in 1..(d - 1) : docs[x].kind = "map" /\ Truthy(docs[x].ID)}}

\* C8: an invalid header adds exactly one header issue and leaves ret
\* false; the loop then takes every document, and what each document's
\* turn does (path, issues, result) is what the catalog's documents alone
\* determine, whatever the header.
C8_HeaderFailureNotFatal ==
    /\ \A k \in HeaderSteps :
           ~schema_header(header) =>
               /\ trace[k].path = "invalid"
               /\ Added(k) = <<Issue("invalid-header", <<>>, "", <<>>, 0)>>
               /\ ~ret
    /\ (Returned /\ HeaderRead /\ ~schema_header(header)) => AllDocsTaken
    /\ \A k \in ComponentSteps :
           /\ HeaderSteps # {}
           /\ \E o \in ComponentOutcomes(DocOf(k), IdsBefore(trace[k].doc)) :
                  /\ o.path = trace[k].path
                  /\ o.issues = Added(k)
                  /\ o.ok = trace[k].ok

C8_Witness ==
    /\ Returned
    /\ HeaderRead
    /\ ~schema_header(header)
    /\ Len(docs) = 2
    /\ \E k \in ComponentSteps : trace[k].path = "semantic" /\ Added(k) # <<>>
    /\ \E k \in ComponentSteps : trace[k].path = "duplicate"

CouldNotParse == Issue("could-not-parse", <<>>, "", <<>>, 0)

\* C9 as claimed: an unparsable file makes validate() return false with
\* exactly one issue in the run's issue list and no header or component
\* check; otherwise a validate() that returns has iterated all documents.
C9_AbortWithSingleIssue ==
    /\ (RunEnded /\ ~HeaderRead) =>
           /\ Last.outcome = "returned"
           /\ ~Last.verdict
           /\ SubSeq(issue_list, Last.first, Len(issue_list)) = <<CouldNotParse>>
           /\ HeaderSteps = {}
           /\ ComponentSteps = {}
    /\ (Returned /\ HeaderRead) => AllDocsTaken

\* C9 amended: when the first document cannot be read (a parse error, or a
\* stream with no document), validate() returns false after appending
\* exactly one could-not-parse issue behind the issues of the raw-line
\* pre-pass, with no header or component check; otherwise a validate()
\* that returns has iterated all documents.
C9_AbortAfterPrepass ==
    /\ (RunEnded /\ ~HeaderRead) =>
           /\ Last.outcome = "returned"
           /\ ~Last.verdict
           /\ Len(trace) = 2
           /\ trace[1].step = "prepass"
           /\ trace[2].step = "parse"
           /\ Added(2) = <<CouldNotParse>>
           /\ Len(issue_list) = Cardinality(MarkedLines) + 1
           /\ \A i \in 1..(Len(issue_list) - 1) : issue_list[i].kind = "python-object"
    /\ (Returned /\ HeaderRead) => (AllDocsTaken /\ pos = Len(docs))

C9_Witness ==
    /\ RunEnded
    /\ header = HeaderParseError
    /\ Cardinality(MarkedLines) = 2
    /\ Len(docs) >= 1

\* C10: the pre-pass appends exactly one issue for each line holding the
\* marker, naming that line; a run with such a line never returns true;
\* and the pre-pass stops nothing: the header is read next, a header that
\* parses is checked, and a run that returns has taken every document.
C10_PrepassReportsEachLine ==
    /\ trace # <<>> =>
           /\ trace[1].step = "prepass"
           /\ Len(Added(1)) = Cardinality(MarkedLines)
           /\ \A i \in MarkedLines :
                  \E j \in DOMAIN Added(1) :
                      Added(1)[j] = Issue("python-object", <<>>, "", <<>>, i - 1)
           /\ trace[1].ok = (MarkedLines = {})
    /\ (Returned /\ MarkedLines # {}) => ~Last.verdict
    /\ (RunEnded /\ MarkedLines # {}) =>
           /\ Len(trace) >= 2 /\ trace[2].step = "parse"
           /\ HeaderRead => HeaderSteps # {}
           /\ (HeaderRead /\ Returned) => AllDocsTaken

C10_Witness ==
    /\ Returned
    /\ Cardinality(MarkedLines) = 2
    /\ schema_header(header)
    /\ Len(docs) = 2
    /\ \A k \in ComponentSteps : trace[k].ok

\* ------------------------------------------------------------------------
\* Reading the checks on a component from the state
\* ------------------------------------------------------------------------
\* The steps that ran the checks behind the schema.
SemanticSteps == {k \in ComponentSteps : trace[k].path = "semantic"}

DescItems(k) == DocOf(k).Description.items

\* The document of step k has nothing to report but its Description
\* markup: the other keys are those of a plain generic component and the
\* locales of the Description are clean.
OnlyDescription(k) ==
    /\ k \in SemanticSteps
    /\ DocOf(k) = DescDoc(DocOf(k).ID, DocOf(k).Description)
    /\ \A i \in DOMAIN DescItems(k) :
           /\ DescItems(k)[i].lang \in {<<"C">>, <<"de">>}
           /\ ~(\E q \in Quotes : StartsWith(DescItems(k)[i].value.s, <<q>>))

TagIssues == {"invalid-markup", "localized-tag", "tag-attributes"}
TagIssuesAdded(k) == {j \in DOMAIN Added(k) : Added(k)[j].kind \in TagIssues}

\* The elements the markup rules allow inside an element.
AllowedIn(parent) ==
    CASE parent = "root" -> {"p", "ul", "ol"}
      [] parent \in {"ul", "ol"} -> {"li"}
      [] OTHER -> {}

\* Some element, at any depth, is not allowed where it stands.
RECURSIVE DisallowedIn(_, _)
DisallowedIn(elems, parent) ==
    \E i \in DOMAIN elems :
        \/ elems[i].tag \notin AllowedIn(parent)
        \/ DisallowedIn(elems[i].kids, elems[i].tag)

\* C11: a description that holds a disallowed element anywhere makes the
\* markup validation fail with an issue recorded, as "<p><b>x</b></p>"
\* and "<ul><p>x</p></ul>" do, while "<p>x</p>" and "<ul><li>x</li></ul>"
\* pass.  (Stated as claimed; the code breaks it for an element inside a
\* paragraph.)
C11_DisallowedAnywhereRejected ==
    \A k \in DOMAIN trace :
        OnlyDescription(k) =>
            \A i \in DOMAIN DescItems(k) :
                LET v == DescItems(k)[i].value
                IN  /\ (v.xml.ok /\ DisallowedIn(v.xml.elems, "root")) =>
                           /\ ~trace[k].ok
                           /\ Added(k) # <<>>
                    /\ (Len(DescItems(k)) = 1
                        /\ v.s \in {<<"<p>", "x", "</p>">>, <<"<ul>", "<li>", "x", "</li>", "</ul>">>}) =>
                           trace[k].ok /\ Added(k) = <<>>

\* The shape _validate_description accepts: every child of the root is p,
\* ul or ol without attributes, and every child of a ul or ol is li
\* without attributes.
ViolatingTop(elems) ==
    {i \in DOMAIN elems : elems[i].tag \notin {"p", "ul", "ol"} \/ elems[i].attrib # <<>>}

ViolatingKids(elems) ==
    {<<i, j>> \in (DOMAIN elems) \X (1..MaxKids + 1) :
        /\ elems[i].tag \in {"ul", "ol"}
        /\ j \in DOMAIN elems[i].kids
        /\ elems[i].kids[j].tag # "li" \/ elems[i].kids[j].attrib # <<>>}

\* C12: for a description that parses, the markup validation passes
\* exactly when no child of the root and no child of a ul or ol violates
\* the shape (deeper elements are not looked at), and it adds at least one
\* issue for each element that does.
C12_OnlyTwoLevelsInspected ==
    \A k \in DOMAIN trace :
        (OnlyDescription(k) /\ \A i \in DOMAIN DescItems(k) : DescItems(k)[i].value.xml.ok) =>
            /\ trace[k].ok <=>
                   \A i \in DOMAIN DescItems(k) :
                       /\ ViolatingTop(DescItems(k)[i].value.xml.elems) = {}
                       /\ ViolatingKids(DescItems(k)[i].value.xml.elems) = {}
            /\ Len(DescItems(k)) = 1 =>
                   /\ Cardinality(TagIssuesAdded(k)) >=
                          Cardinality(ViolatingTop(DescItems(k)[1].value.xml.elems))
                          + Cardinality(ViolatingKids(DescItems(k)[1].value.xml.elems))
                   /\ Cardinality(TagIssuesAdded(k)) = Len(Added(k))

C12_Witness ==
    \E k \in DOMAIN trace :
        /\ OnlyDescription(k)
        /\ Len(DescItems(k)) = 1
        /\ DescItems(k)[1].value.xml.ok
        /\ ViolatingKids(DescItems(k)[1].value.xml.elems) # {}
        /\ ViolatingTop(DescItems(k)[1].value.xml.elems) # {}
        /\ Returned

\* The localized maps validate() audits on a document, with the name each
\* audit reports them under.
AuditedMaps(doc) ==
    <<[key |-> "Name", m |-> doc.Name], [key |-> "Summary", m |-> doc.Summary],
      [key |-> "Description", m |-> doc.Description],
      [key |-> "DeveloperName", m |-> doc.DeveloperName]>>
    \o [i \in DOMAIN doc.Screenshots.items |->
           [key |-> "Screenshots.caption", m |-> doc.Screenshots.items[i].caption]]

AuditedItems(doc) ==
    UNION {{[key |-> AuditedMaps(doc)[a].key, item |-> AuditedMaps(doc)[a].m.items[i]] :
               i \in DOMAIN AuditedMaps(doc)[a].m.items} :
           a \in DOMAIN AuditedMaps(doc)}

AllValuesStr(doc) == \A it \in AuditedItems(doc) : it.item.value.ty = "str"

\* The document of step k has nothing to report but its localized maps:
\* it is no application, has no Icon, and its Description values are text
\* without elements.
OnlyLocalized(k) ==
    /\ k \in SemanticSteps
    /\ DocOf(k).Type = Generic
    /\ DocOf(k).Icon = NoIcon
    /\ \A i \in DOMAIN DescItems(k) : DescItems(k)[i].value.xml = Parsed(<<>>)

Whitespace == {" ", "\t"}
HasWhitespace(lang) == \E c \in Whitespace : Contains(lang, c)

AdvisoryIssues == {"cruft-locale", "locale-encoding", "quoted-string"}

IssueFor(k, kind, it) ==
    \E j \in DOMAIN Added(k) :
        Added(k)[j] = Issue(kind, DocOf(k).ID.s, it.key, it.item.lang, 0)

OtherStepsPassed(k) == \A j \in DOMAIN trace : j # k => trace[j].ok

IconIssues == {"icon-required", "icon-unusable"}

IconIssueAdded(k, kind) ==
    \E j \in DOMAIN Added(k) : Added(k)[j] = Issue(kind, DocOf(k).ID.s, "Icon", <<>>, 0)

IsApplication(doc) == doc.Type.s \in {<<"desktop-app">>, <<"web-app">>}
IconDeclared(doc) == doc.Icon.ty # "absent"
KeySet(icon, key) == icon[key].ty # "absent"

\* C14: on a schema-valid component, an application without Icon adds the
\* icon-required issue and fails; an Icon with none of stock, cached and
\* local adds the icon-unusable issue and fails; Icon {stock: "foo"} adds
\* no icon issue; a component that is no application and has no Icon adds
\* no icon issue.  A failed step leaves a run that returns with a false
\* verdict.
C14_IconRules ==
    \A k \in SemanticSteps :
        LET doc == DocOf(k)
        IN  /\ (IsApplication(doc) /\ ~IconDeclared(doc)) =>
                   IconIssueAdded(k, "icon-required") /\ ~trace[k].ok
            /\ (/\ IconDeclared(doc)
                /\ ~KeySet(doc.Icon, "stock")
                /\ ~KeySet(doc.Icon, "cached")
                /\ ~KeySet(doc.Icon, "local")) =>
                   IconIssueAdded(k, "icon-unusable") /\ ~trace[k].ok
            /\ doc.Icon = Icon(Str(<<"foo">>), Absent, Absent, Absent) =>
                   \A j \in DOMAIN Added(k) : Added(k)[j].kind \notin IconIssues
            /\ (~IsApplication(doc) /\ ~IconDeclared(doc)) =>
                   \A j \in DOMAIN Added(k) : Added(k)[j].kind \notin IconIssues
            /\ (Returned /\ ~trace[k].ok) => ~Last.verdict

C14_Witness ==
    \E k \in SemanticSteps :
        /\ IsApplication(DocOf(k))
        /\ IconDeclared(DocOf(k))
        /\ KeySet(DocOf(k).Icon, "remote")
        /\ IconIssueAdded(k, "icon-unusable")
        /\ Returned

\* C15: a component with a non-empty unique ID that lacks Type, Name or
\* Packages, behind a valid header, leaves a false verdict and an issue
\* scoped to its ID that names the missing key.  (Stated as claimed; the
\* code breaks it when the document violates another clause as well.)
C15_MissingFieldNamed ==
    \A k \in DOMAIN trace :
        (SchemaViolator(k) /\ schema_header(header)) =>
            \A f \in MissingKeys(DocOf(k)) \ {"ID"} :
                /\ Returned => ~Last.verdict
                /\ \E j \in DOMAIN Added(k) :
                       /\ Added(k)[j].id = DocOf(k).ID.s
                       /\ Added(k)[j].key = f

\* The clauses of schema_component a document violates.
ViolatedClauses(doc) == InvalidKeys(doc) \cup MissingKeys(doc)

\* C16: a component with a non-empty unique ID that violates k clauses of
\* the component schema adds k schema issues, one per clause.  (Stated as
\* claimed; the code adds one issue, for the first error only.)
C16_OneIssuePerViolation ==
    \A k \in DOMAIN trace :
        SchemaViolator(k) =>
            /\ Len(Added(k)) = Cardinality(ViolatedClauses(DocOf(k)))
            /\ \A f \in ViolatedClauses(DocOf(k)) :
                   \E j \in DOMAIN Added(k) :
                       Added(k)[j].kind = "schema" /\ Added(k)[j].key = f

\* C17: the issue list an instance sees holds the issues of its own run
\* only: nothing another instance added for another file comes before
\* them, neither while the run goes on nor when it has ended.  (Stated as
\* claimed; the code breaks it.)
C17_CollectorOwnedByRun ==
    /\ pc # "idle" => SubSeq(IssueListOf(self), 1, trace[1].first - 1) = <<>>
    /\ \A c \in DOMAIN results :
           results[c].call = "validate" =>
               SubSeq(results[c].issues, 1, results[c].first - 1) = <<>>

\* The catalog splits into documents: the header and every later document
\* can be read from the stream.
Parsable == HeaderRead /\ \A d \in DOMAIN docs : docs[d].kind # "parse-error"

\* The steps of the run so far are in the order START, HEADER_CHECK,
\* COMPONENT_CHECK*: the pre-pass, the read of the header, one header
\* check, then the documents one by one in catalog order; and each step's
\* issues follow those of the step before it.
StepsInOrder ==
    \A k \in DOMAIN trace :
        /\ k = 1 => trace[k].step = "prepass"
        /\ k = 2 => trace[k].step = "parse"
        /\ k = 3 => trace[k].step = "header"
        /\ (k > 3 /\ trace[k].step # "return") =>
               trace[k].step = "component" /\ trace[k].doc = k - 3
        /\ trace[k].step = "return" => k = Len(trace) /\ k = Len(docs) + 4
        /\ k > 1 => trace[k].first = trace[k - 1].last + 1

Done == Returned /\ AllDocsTaken /\ trace[Len(trace)].step = "return"

\* C18: every run on a parsable catalog keeps the order START,
\* HEADER_CHECK, COMPONENT_CHECK*, with the issues in emission order, and
\* eventually reaches DONE with every document visited.  (Stated as
\* claimed; the code breaks it where an exception leaves the loop.)
C18_StartHeaderComponentsDone ==
    /\ [](Parsable => StepsInOrder)
    /\ Parsable ~> Done

\* The Description values of the document of step k that do not parse, and
\* those that parse and hold an element the markup rules reject.
Broken(k) == {i \in DOMAIN DescItems(k) : ~DescItems(k)[i].value.xml.ok}

Rejected(k) ==
    {i \in DOMAIN DescItems(k) :
        /\ DescItems(k)[i].value.xml.ok
        /\ \/ ViolatingTop(DescItems(k)[i].value.xml.elems) # {}
           \/ ViolatingKids(DescItems(k)[i].value.xml.elems) # {}}

BrokenIssuesAdded(k) == {j \in DOMAIN Added(k) : Added(k)[j].kind = "broken-markup"}

\* C19: a Description value that does not parse adds exactly one
\* broken-markup issue and no tag issue, and fails the step; the values of
\* the other locales are validated all the same (a rejected element among
\* them adds its tag issue), and so are the documents that follow.
C19_BrokenMarkupStopsValueOnly ==
    \A k \in DOMAIN trace :
        (OnlyDescription(k) /\ Broken(k) # {}) =>
            /\ Cardinality(BrokenIssuesAdded(k)) = Cardinality(Broken(k))
            /\ Len(Added(k)) = Cardinality(BrokenIssuesAdded(k)) + Cardinality(TagIssuesAdded(k))
            /\ TagIssuesAdded(k) # {} <=> Rejected(k) # {}
            /\ \A j \in BrokenIssuesAdded(k) :
                   Added(k)[j] = Issue("broken-markup", DocOf(k).ID.s, "Description", <<>>, 0)
            /\ ~trace[k].ok
            /\ RunEnded =>
                   /\ Returned
                   /\ ~Last.verdict
                   /\ AllDocsTaken
                   /\ \A n \in DOMAIN trace :
                          (n > k /\ OnlyDescription(n) /\ Rejected(n) # {}) =>
                              TagIssuesAdded(n) # {}

C19_Witness ==
    \E k \in DOMAIN trace :
        /\ OnlyDescription(k)
        /\ Broken(k) = {1}
        /\ Rejected(k) = {2}
        /\ Returned
        /\ \E n \in DOMAIN trace : n > k /\ OnlyDescription(n) /\ Rejected(n) # {}

\* The issues the current run has appended so far.
RunIssues == SubSeq(issue_list, trace[1].first, Len(issue_list))

\* C20: a validate() that returns false has appended at least one issue
\* in that run, because every step that fails appends one; a run that
\* returns after appending advisory locale issues only returns true.
C20_FalseVerdictHasIssue ==
    /\ \A c \in DOMAIN results :
           (results[c].call = "validate" /\ results[c].outcome = "returned"
            /\ ~results[c].verdict) =>
               Len(results[c].issues) >= results[c].first
    /\ \A k \in DOMAIN trace :
           (trace[k].step # "return" /\ ~trace[k].ok) => Added(k) # <<>>
    /\ (trace # <<>> /\ ~ret) => RunIssues # <<>>
    /\ (Returned /\ \A j \in DOMAIN RunIssues : RunIssues[j].kind \in AdvisoryIssues) =>
           Last.verdict

C20_Witness ==
    /\ Returned
    /\ ~Last.verdict
    /\ \E k \in SemanticSteps : trace[k].ok /\ Added(k) # <<>>
    /\ \E k \in ComponentSteps : ~trace[k].ok /\ Len(Added(k)) = 1

\* The non-empty IDs of the documents the loop has gone through.
IdsVisited ==
    {docs[d].ID : d \in {x \in 1..pos : docs[x].kind = "map" /\ Truthy(docs[x].ID)}}

\* An earlier step rejected a document with the ID of step k's document
\* for its schema.
SchemaFailedEarlier(k) ==
    \E e \in ComponentSteps :
        e < k /\ trace[e].path = "schema" /\ DocOf(e).ID = DocOf(k).ID

\* C21: while validate() runs its loop, and when it has returned,
\* ids_found holds exactly the non-empty IDs of the documents visited so
\* far; a document the schema rejected has its ID in it, and a later
\* schema-valid document with that ID is rejected as a duplicate: its turn
\* adds the duplicate-ID issue alone and runs no other check.
C21_IDRegisteredBeforeSchema ==
    /\ (pc = "loop" \/ Returned) => ids_found = IdsVisited
    /\ (pc = "loop" \/ Returned) =>
           \A k \in ComponentSteps : trace[k].path = "schema" => DocOf(k).ID \in ids_found
    /\ \A k \in ComponentSteps :
           (/\ DocOf(k).kind = "map"
            /\ schema_component(DocOf(k))
            /\ SchemaFailedEarlier(k)) =>
               /\ trace[k].path = "duplicate"
               /\ Added(k) = <<Issue("duplicate-id", DocOf(k).ID.s, "", <<>>, 0)>>
               /\ ~trace[k].ok

C21_Witness ==
    /\ Returned
    /\ \E k \in ComponentSteps :
           /\ schema_component(DocOf(k))
           /\ SemanticChecks(DocOf(k)).issues # <<>>
           /\ SchemaFailedEarlier(k)

=============================================================================
